---- MODULE Spec2Model ----
(***************************************************************************)
(* Model of examples/kdapp-mcp-server/tictactoe_coordinator.py: the        *)
(* TicTacToeCoordinator that launches the kdapp MCP server (the engine),   *)
(* waits for a readiness line, talks line-delimited JSON-RPC to it over    *)
(* its stdin/stdout pipes and drives a game of TicTacToe.                  *)
(*                                                                         *)
(* The coordinator is one thread; `pc` is its position.  The engine is the *)
(* environment: it prints start-up lines, answers the requests it has      *)
(* received in order, prints log lines and may exit at any time.           *)
(***************************************************************************)
EXTENDS Integers, Sequences, FiniteSets, TLC

\* Log lines the engine prints before it answers a request, or while it builds.
MaxLogLines == 1
\* random.choice(seq) returns one of the first MaxRandom elements of seq.
MaxRandom == 2

\* play_game locals (lines 583, 585).
max_moves == 9
max_consecutive_failures == 3

(***************************************************************************)
(* JSON values, as json.loads returns them.  A string is kept as its       *)
(* length, an object as a function from its keys to values.                *)
(***************************************************************************)
JNull == [t |-> "null"]
JStr(n) == [t |-> "str", len |-> n]
JNum(n) == [t |-> "num", v |-> n]
JObj(f) == [t |-> "obj", f |-> f]
EmptyObj == JObj([k \in {} |-> JNull])

\* isinstance(v, dict), isinstance(v, str)
IsDict(v) == v.t = "obj"
IsStr(v) == v.t = "str"
\* k in v, for a dict v
Has(v, k) == k \in DOMAIN v.f
\* v.get(k), for a dict v
Get(v, k) == IF k \in DOMAIN v.f THEN v.f[k] ELSE JNull
\* Python's truth value of v (what `not v` negates)
Truthy(v) ==
    CASE v.t = "null" -> FALSE
      [] v.t = "str" -> v.len > 0
      [] v.t = "num" -> v.v # 0
      [] v.t = "obj" -> DOMAIN v.f # {}

\* The request/response envelopes of send_mcp_request.
ResultOnly(v) == JObj([result |-> v])
ErrorOnly == JObj([error |-> JObj([code |-> JNum(-1)])])
ResultAndError(v) == JObj([result |-> v, error |-> JObj([code |-> JNum(-1)])])

\* The first key of the sequence keys, from position i on, that satisfies
\* the test of the loop; 0 when the loop ends without returning.
RECURSIVE FirstDirectKey(_, _, _)
FirstDirectKey(result, keys, i) ==
    IF i > Len(keys) THEN 0
    ELSE IF Has(result, keys[i]) /\ Truthy(result.f[keys[i]]) THEN i
    ELSE FirstDirectKey(result, keys, i + 1)

RECURSIVE FirstReceiptKey(_, _, _)
FirstReceiptKey(receipt, keys, i) ==
    IF i > Len(keys) THEN 0
    ELSE IF Has(receipt, keys[i]) THEN i
    ELSE FirstReceiptKey(receipt, keys, i + 1)

DirectKeys == <<"tx_hash", "txid", "tx", "transaction", "hash">>
ReceiptKeys == <<"tx_hash", "txid", "hash">>

\* extract_tx_hash(response): the identifier, or JNull for None.
extract_tx_hash(response) ==
    IF ~IsDict(response) THEN JNull
    ELSE LET result == Get(response, "result") IN
         IF ~Truthy(result) THEN JNull
         ELSE IF IsDict(result) THEN
              LET d == FirstDirectKey(result, DirectKeys, 1) IN
              IF d # 0 THEN result.f[DirectKeys[d]]
              ELSE IF Has(result, "receipt") /\ IsDict(result.f["receipt"]) THEN
                   LET r == FirstReceiptKey(result.f["receipt"], ReceiptKeys, 1) IN
                   IF r # 0 THEN result.f["receipt"].f[ReceiptKeys[r]]
                   ELSE JNull
              ELSE JNull
         ELSE IF IsStr(result) /\ result.len >= 8 THEN result
         ELSE JNull

\* execute_move without the test of the extracted identifier (lines 253-258).
execute_move_no_tx_check(response, onchain) ==
    IF IsDict(response) /\ ~Has(response, "error") /\ Has(response, "result") THEN
        IF Get(response, "result") = JNull /\ onchain THEN FALSE
        ELSE TRUE
    ELSE FALSE

\* execute_move that enforces the identifier whatever require_onchain is.
execute_move_always_onchain(response, onchain) ==
    IF IsDict(response) /\ ~Has(response, "error") /\ Has(response, "result") THEN
        IF Get(response, "result") = JNull THEN FALSE
        ELSE Truthy(extract_tx_hash(response))
    ELSE FALSE

\* The verdict of execute_move on the response of its request.
execute_move(response, onchain) ==
    IF IsDict(response) /\ ~Has(response, "error") /\ Has(response, "result") THEN
        IF Get(response, "result") = JNull /\ onchain THEN FALSE
        ELSE IF onchain THEN Truthy(extract_tx_hash(response))
        ELSE TRUE
    ELSE FALSE

(***************************************************************************)
(* The board and the pure functions over it.                               *)
(***************************************************************************)
None == "None"
Idx == 0..2
Cells == Idx \X Idx
EmptyBoard == [i \in Idx |-> [j \in Idx |-> None]]
NoMove == <<-1, -1>>

\* The switch of players that keeps the player.
Other_same(player) == player

\* The other player (lines 619, 647).
Other(player) == IF player = "X" THEN "O" ELSE "X"

\* An update_board that writes the mark X for either player.
update_board_always_x(board, row, col, player) ==
    [board EXCEPT ![row][col] = "X"]

\* update_board(row, col, player)
update_board(board, row, col, player) ==
    [board EXCEPT ![row][col] = player]

\* check_winner without the test of the diagonal from (0, 2) to (2, 0).
check_winner_no_anti_diagonal(board) ==
    IF \E r \in Idx : board[r][0] = board[r][1] /\ board[r][1] = board[r][2] /\ board[r][0] # None
    THEN LET r == CHOOSE r \in Idx :
                     /\ board[r][0] = board[r][1] /\ board[r][1] = board[r][2] /\ board[r][0] # None
                     /\ \A q \in Idx : q < r =>
                            ~(board[q][0] = board[q][1] /\ board[q][1] = board[q][2] /\ board[q][0] # None)
         IN board[r][0]
    ELSE IF \E c \in Idx : board[0][c] = board[1][c] /\ board[1][c] = board[2][c] /\ board[0][c] # None
    THEN LET c == CHOOSE c \in Idx :
                     /\ board[0][c] = board[1][c] /\ board[1][c] = board[2][c] /\ board[0][c] # None
                     /\ \A q \in Idx : q < c =>
                            ~(board[0][q] = board[1][q] /\ board[1][q] = board[2][q] /\ board[0][q] # None)
         IN board[0][c]
    ELSE IF board[0][0] = board[1][1] /\ board[1][1] = board[2][2] /\ board[0][0] # None
    THEN board[0][0]
    ELSE IF \A c \in Cells : board[c[1]][c[2]] # None
    THEN "Draw"
    ELSE None

\* check_winner(): rows, then columns, then the two diagonals, then the draw.
check_winner(board) ==
    IF \E r \in Idx : board[r][0] = board[r][1] /\ board[r][1] = board[r][2] /\ board[r][0] # None
    THEN LET r == CHOOSE r \in Idx :
                     /\ board[r][0] = board[r][1] /\ board[r][1] = board[r][2] /\ board[r][0] # None
                     /\ \A q \in Idx : q < r =>
                            ~(board[q][0] = board[q][1] /\ board[q][1] = board[q][2] /\ board[q][0] # None)
         IN board[r][0]
    ELSE IF \E c \in Idx : board[0][c] = board[1][c] /\ board[1][c] = board[2][c] /\ board[0][c] # None
    THEN LET c == CHOOSE c \in Idx :
                     /\ board[0][c] = board[1][c] /\ board[1][c] = board[2][c] /\ board[0][c] # None
                     /\ \A q \in Idx : q < c =>
                            ~(board[0][q] = board[1][q] /\ board[1][q] = board[2][q] /\ board[0][q] # None)
         IN board[0][c]
    ELSE IF board[0][0] = board[1][1] /\ board[1][1] = board[2][2] /\ board[0][0] # None
    THEN board[0][0]
    ELSE IF board[0][2] = board[1][1] /\ board[1][1] = board[2][0] /\ board[0][2] # None
    THEN board[0][2]
    ELSE IF \A c \in Cells : board[c[1]][c[2]] # None
    THEN "Draw"
    ELSE None

\* is_valid_move_candidate(row, col); NoMove stands for a missing coordinate.
is_valid_move_candidate(board, row, col) ==
    IF row = -1 \/ col = -1 THEN FALSE
    ELSE IF ~(0 <= row /\ row <= 2 /\ 0 <= col /\ col <= 2) THEN FALSE
    ELSE board[row][col] = None

\* A choice that always takes the first element.
random_choice_first(seq) == {seq[1]}

\* random.choice(seq): the elements it may return.
random_choice(seq) ==
    {seq[i] : i \in {k \in 1..Len(seq) : k <= MaxRandom}}

\* A list of the cells that keeps the cells with a mark.
available_unfiltered(board, cells) == cells

\* The cells of the list cells that are empty on the board, in list order.
available(board, cells) ==
    SelectSeq(cells, LAMBDA c : board[c[1]][c[2]] = None)

\* A get_default_move that looks at the corners before the center.
get_default_move_corners_first(board) ==
    LET empty == available(board, <<<<0, 0>>, <<0, 1>>, <<0, 2>>, <<1, 0>>, <<1, 1>>,
                                   <<1, 2>>, <<2, 0>>, <<2, 1>>, <<2, 2>>>>)
        available_center == available(board, <<<<1, 1>>>>)
        available_corners == available(board, <<<<0, 0>>, <<0, 2>>, <<2, 0>>, <<2, 2>>>>)
        available_edges == available(board, <<<<0, 1>>, <<1, 0>>, <<1, 2>>, <<2, 1>>>>)
    IN  IF empty = <<>> THEN {<<0, 0>>}
        ELSE IF available_corners # <<>> THEN random_choice(available_corners)
        ELSE IF available_center # <<>> THEN random_choice(available_center)
        ELSE IF available_edges # <<>> THEN random_choice(available_edges)
        ELSE random_choice(empty)

\* A get_default_move that returns its default (0, 0) on every board.
get_default_move_first(board) == {<<0, 0>>}

\* get_default_move(): the cells it may return.
get_default_move(board) ==
    LET empty == available(board, <<<<0, 0>>, <<0, 1>>, <<0, 2>>, <<1, 0>>, <<1, 1>>,
                                   <<1, 2>>, <<2, 0>>, <<2, 1>>, <<2, 2>>>>)
        available_center == available(board, <<<<1, 1>>>>)
        available_corners == available(board, <<<<0, 0>>, <<0, 2>>, <<2, 0>>, <<2, 2>>>>)
        available_edges == available(board, <<<<0, 1>>, <<1, 0>>, <<1, 2>>, <<2, 1>>>>)
    IN  IF empty = <<>> THEN {<<0, 0>>}
        ELSE IF available_center # <<>> THEN random_choice(available_center)
        ELSE IF available_corners # <<>> THEN random_choice(available_corners)
        ELSE IF available_edges # <<>> THEN random_choice(available_edges)
        ELSE random_choice(empty)

(***************************************************************************)
(* The suggestion sources.  A reply is an exception, or a status with the  *)
(* text of the answer; the text is kept as what the code looks for in it:  *)
(* prose without an object, a JSON object {"row": r, "col": c}, or such an *)
(* object written with backslashes before its braces.                      *)
(***************************************************************************)
Reply(status, text, row, col) ==
    [status |-> status, text |-> text, row |-> row, col |-> col]
AgentReplies ==
    { Reply("exception", "prose", -1, -1),
      Reply("500", "prose", -1, -1),
      Reply("200", "prose", -1, -1),
      Reply("200", "object", 0, 0),
      Reply("200", "object", 0, 1),
      Reply("200", "object", 3, 0),
      Reply("200", "escaped_object", 0, 1) }

\* re.search of the pattern \\{.*\\} in content: the pattern is a backslash, a brace, any
\* text, a backslash, a brace; the match is the text with its backslashes.
re_search(reply) == IF reply.text = "escaped_object" THEN "escaped_object" ELSE "no_match"

\* json.loads of the matched text: text that starts with a backslash is not JSON.
json_loads_text(text) == text = "object"

\* A get_move_from_agent that returns the cell of the agent without
\* is_valid_move_candidate.
get_move_from_agent_unvalidated(board, reply) ==
    IF reply.status = "200" /\ reply.text # "prose"
    THEN {<<reply.row, reply.col>>}
    ELSE get_default_move(board)

\* get_move_from_agent1 / get_move_from_agent2: the cells the call may return.
get_move_from_agent(board, reply) ==
    IF reply.status = "200"
       /\ re_search(reply) # "no_match"
       /\ json_loads_text(re_search(reply))
       /\ is_valid_move_candidate(board, reply.row, reply.col)
    THEN {<<reply.row, reply.col>>}
    ELSE get_default_move(board)

\* The cells in the order of the two loops of the scan (lines 633-634).
RowMajor == <<<<0, 0>>, <<0, 1>>, <<0, 2>>, <<1, 0>>, <<1, 1>>, <<1, 2>>, <<2, 0>>, <<2, 1>>, <<2, 2>>>>

\* The scan for another cell that keeps the last one it finds.
fallback_move_last(board, row, col, default) ==
    IF default = <<row, col>> THEN
        LET alt == {i \in 1..9 : board[RowMajor[i][1]][RowMajor[i][2]] = None /\ RowMajor[i] # <<row, col>>}
        IN  IF alt = {} THEN default
            ELSE RowMajor[CHOOSE i \in alt : \A k \in alt : i >= k]
    ELSE default

\* The default move without the scan for another cell.
fallback_move_no_scan(board, row, col, default) == default

\* The scan of play_game (lines 631-641): the first empty cell in row-major
\* order other than (row, col), else the default itself.
fallback_move(board, row, col, default) ==
    IF default = <<row, col>> THEN
        LET alt == {i \in 1..9 : board[RowMajor[i][1]][RowMajor[i][2]] = None /\ RowMajor[i] # <<row, col>>}
        IN  IF alt = {} THEN default
            ELSE RowMajor[CHOOSE i \in alt : \A k \in alt : i <= k]
    ELSE default

(***************************************************************************)
(* Requests and the lines of the engine's combined output.                 *)
(***************************************************************************)
NoCommand == [player |-> None, row |-> -1, col |-> -1]
NoRequest == [name |-> "none", episode_id |-> JNull, command |-> NoCommand]
Request(name, episode, command) ==
    [name |-> name, episode_id |-> episode, command |-> command]
MoveCommand(player, row, col) == [player |-> player, row |-> row, col |-> col]

\* A line of text: the phrases its lowercase text contains, and the value it
\* parses to when it is JSON.  `re` is the request the engine answers with
\* it (NoRequest for a line that answers nothing); the coordinator cannot
\* see it.
LogLine(phrases) == [kind |-> "text", phrases |-> phrases, val |-> JNull, re |-> NoRequest]
JsonLine(val, req) == [kind |-> "json", phrases |-> {}, val |-> val, re |-> req]

\* A json.loads that takes every line for an object.
json_loads_lenient(line) ==
    [ok |-> TRUE, val |-> IF line.kind = "json" THEN line.val ELSE EmptyObj]

\* json.loads(line): whether it parses, and the value.
json_loads(line) ==
    IF line.kind = "json" THEN [ok |-> TRUE, val |-> line.val]
    ELSE [ok |-> FALSE, val |-> JNull]

readiness_markers ==
    { "connected to kaspa node successfully",
      "successfully connected to kaspa node",
      "continues in offline mode",
      "server continues in offline mode",
      "finished dev",
      "running target" }

\* any(marker in low for marker in readiness_markers)
is_ready_line(line) == line.phrases \cap readiness_markers # {}
\* "offline mode" in low
is_offline_line(line) == "offline mode" \in line.phrases

CompilingLine == LogLine({})
FinishedLine == LogLine({"finished dev"})
RunningLine == LogLine({"running target"})
ConnectedLine == LogLine({"connected to kaspa node successfully"})
OfflineLine ==
    LogLine({"continues in offline mode", "server continues in offline mode", "offline mode"})

\* What the engine may answer to a move.
TxHash == JStr(64)
MoveAnswers ==
    { ErrorOnly,
      ResultOnly(JNull),
      ResultOnly(EmptyObj),
      ResultOnly(JObj([status |-> JStr(2)])),
      ResultOnly(JObj([tx_hash |-> TxHash])) }

EpisodeHandle == JNum(1)
PubkeysResult == JObj([agent1_pubkey |-> JStr(66), agent2_pubkey |-> JStr(66)])
StateResult == JObj([participants |-> JStr(66)])

\* The answers of the engine to a request.
Answers(req) ==
    CASE req.name = "kdapp_get_agent_pubkeys" -> {ResultOnly(PubkeysResult), ErrorOnly}
      [] req.name = "kdapp_start_episode" -> {ResultOnly(EpisodeHandle), ErrorOnly}
      [] req.name = "kdapp_get_episode_state" -> {ResultOnly(StateResult), ErrorOnly}
      [] req.name = "kdapp_execute_command" -> MoveAnswers

(***************************************************************************)
(* State.                                                                  *)
(***************************************************************************)
VARIABLES
    pc,                    \* the coordinator's position
    call,                  \* the send_mcp_request that runs or ran last
    response,              \* what it returned; NoResponse while it runs
    offline_mode_detected, \* __init__'s local
    episode_id,
    game_board,
    current_player,
    move_count,
    consecutive_failures,
    move,                  \* play_game's (row, col)
    default_move,          \* play_game's (default_row, default_col)
    outcome,               \* what play_game printed at its end
    raised,                \* the exception that left the script, or "none"
    terminated,            \* server_process.terminate() was called
    engine,                \* the engine's phase
    inq,                   \* requests written to the engine's stdin, unanswered
    pipe,                  \* lines the engine printed, unread
    logs,                  \* log lines printed since the last answer
    test,                  \* test_simple_server.py: the position of the test function
    thread,                \* the state of the thread t that runs run_server
    shutdown_request,      \* the server's __shutdown_request
    is_shut_down,          \* the server's __is_shut_down event
    listening,             \* the server's socket is open
    conn,                  \* the connection of the client
    resp_status,           \* the status line the server sent; 0 before
    index_page             \* the index page of the served directory, or "none"

vars ==
    <<pc, call, response, offline_mode_detected, episode_id, game_board,
      current_player, move_count, consecutive_failures, move, default_move,
      outcome, raised, terminated, engine, inq, pipe, logs,
      test, thread, shutdown_request, is_shut_down, listening, conn, resp_status,
      index_page>>

\* The variables of the test of the HTTP server, and their values in a run
\* of the coordinator, which has no such server.
http_vars ==
    <<test, thread, shutdown_request, is_shut_down, listening, conn, resp_status,
      index_page>>
NoHttpServer ==
    /\ test = "none"
    /\ thread = "none"
    /\ shutdown_request = FALSE
    /\ is_shut_down = FALSE
    /\ listening = FALSE
    /\ conn = "none"
    /\ resp_status = 0
    /\ index_page = "none"

coordinator_vars ==
    <<pc, call, response, offline_mode_detected, episode_id, game_board,
      current_player, move_count, consecutive_failures, move, default_move,
      outcome, raised, terminated>>
game_vars ==
    <<episode_id, game_board, current_player, move_count, consecutive_failures,
      move, default_move, outcome>>

NoResponse == [t |-> "none"]

\* self.require_onchain = not offline_mode_detected (line 96)
require_onchain == ~offline_mode_detected

\* has_onchain_capability()
has_onchain_capability == TRUE

\* The state when Popen has returned and start_time is taken; the fields of
\* the game have the values __init__ and play_game give them before their
\* first use.
Init ==
    /\ pc = "st_read"
    /\ call = "none"
    /\ response = NoResponse
    /\ offline_mode_detected = FALSE
    /\ episode_id = JNull
    /\ game_board = EmptyBoard
    /\ current_player = "X"
    /\ move_count = 0
    /\ consecutive_failures = 0
    /\ move = NoMove
    /\ default_move = NoMove
    /\ outcome = "none"
    /\ raised = "none"
    /\ terminated = FALSE
    /\ engine \in {"building", "booting"}
    /\ inq = <<>>
    /\ pipe = <<>>
    /\ logs = 0
    /\ NoHttpServer

(***************************************************************************)
(* The engine (cargo run --bin kdapp-mcp-server), as the coordinator sees  *)
(* it through the pipes: cargo's lines unless cargo is quiet, the line of  *)
(* the server about its node, then one JSON object for each request, in    *)
(* order, with log lines before it.  It may exit while it starts or while  *)
(* it handles a request.                                                   *)
(***************************************************************************)
EngineCompile ==
    /\ engine = "building"
    /\ logs < MaxLogLines
    /\ pipe' = Append(pipe, CompilingLine)
    /\ logs' = logs + 1
    /\ UNCHANGED <<coordinator_vars, engine, inq>>
    /\ UNCHANGED http_vars

EngineFinishBuild ==
    /\ engine = "building"
    /\ pipe' = Append(pipe, FinishedLine)
    /\ engine' = "launching"
    /\ logs' = 0
    /\ UNCHANGED <<coordinator_vars, inq>>
    /\ UNCHANGED http_vars

EngineLaunch ==
    /\ engine = "launching"
    /\ pipe' = Append(pipe, RunningLine)
    /\ engine' = "booting"
    /\ UNCHANGED <<coordinator_vars, inq, logs>>
    /\ UNCHANGED http_vars

EngineBoot ==
    /\ engine = "booting"
    /\ \E l \in {ConnectedLine, OfflineLine} : pipe' = Append(pipe, l)
    /\ engine' = "serving"
    /\ UNCHANGED <<coordinator_vars, inq, logs>>
    /\ UNCHANGED http_vars

\* What the engine does once it serves is placed while the coordinator waits
\* in readline(): the coordinator sees the order of the lines in the pipe and
\* the end of the stream, and sees them only there.
Waited == pc = "rpc_read" /\ engine = "serving" /\ inq # <<>>

\* The answer to the oldest request, after the answers before it were read.
EngineAnswer ==
    /\ Waited
    /\ \A i \in DOMAIN pipe : pipe[i].kind # "json"
    /\ \E a \in Answers(Head(inq)) : pipe' = Append(pipe, JsonLine(a, Head(inq)))
    /\ inq' = Tail(inq)
    /\ logs' = 0
    /\ UNCHANGED <<coordinator_vars, engine>>
    /\ UNCHANGED http_vars

EngineLog ==
    /\ Waited
    /\ logs < MaxLogLines
    /\ pipe' = Append(pipe, LogLine({}))
    /\ logs' = logs + 1
    /\ UNCHANGED <<coordinator_vars, engine, inq>>
    /\ UNCHANGED http_vars

EngineExit ==
    /\ engine \in {"building", "launching", "booting"} \/ Waited
    /\ engine' = "exited"
    /\ UNCHANGED <<coordinator_vars, inq, pipe, logs>>
    /\ UNCHANGED http_vars

EngineNext ==
    \/ EngineCompile
    \/ EngineFinishBuild
    \/ EngineLaunch
    \/ EngineBoot
    \/ EngineAnswer
    \/ EngineLog
    \/ EngineExit

(***************************************************************************)
(* __init__: the readiness loop (lines 39-66).  pc = "st_read" is the call *)
(* of readline().  The test of the while follows each turn at once; after  *)
(* a wait in readline() the 90 seconds may have passed or not.             *)
(***************************************************************************)
\* A readiness loop that takes every line for a readiness line.
StartupReadLine_any_line ==
    /\ pc = "st_read"
    /\ pipe # <<>>
    /\ pipe' = Tail(pipe)
    /\ offline_mode_detected' = is_offline_line(Head(pipe))
    /\ pc' = "pk_send"
    /\ UNCHANGED <<call, response, game_vars, raised, terminated, engine, inq, logs>>
    /\ UNCHANGED http_vars

\* readline() returns a line.
StartupReadLine ==
    /\ pc = "st_read"
    /\ pipe # <<>>
    /\ pipe' = Tail(pipe)
    /\ IF is_ready_line(Head(pipe))
       THEN /\ offline_mode_detected' = is_offline_line(Head(pipe))
            /\ pc' = "pk_send"
       ELSE /\ \E deadline_passed \in BOOLEAN :
                 pc' = IF deadline_passed THEN "st_drain" ELSE "st_read"
            /\ UNCHANGED offline_mode_detected
    /\ UNCHANGED <<call, response, game_vars, raised, terminated, engine, inq, logs>>
    /\ UNCHANGED http_vars

\* readline() returns '' at the end of the stream, the loop sleeps and goes
\* round until the deadline has passed.
StartupReadEOF ==
    /\ pc = "st_read"
    /\ pipe = <<>>
    /\ engine = "exited"
    /\ pc' = "st_drain"
    /\ UNCHANGED <<call, response, offline_mode_detected, game_vars, raised, terminated,
                   engine, inq, pipe, logs>>
    /\ UNCHANGED http_vars

\* stdout.read() returns at the end of the stream; then RuntimeError is raised.
StartupDrain ==
    /\ pc = "st_drain"
    /\ engine = "exited"
    /\ pipe' = <<>>
    /\ pc' = "st_failed"
    /\ raised' = "RuntimeError"
    /\ UNCHANGED <<call, response, offline_mode_detected, game_vars, terminated, engine,
                   inq, logs>>
    /\ UNCHANGED http_vars

(***************************************************************************)
(* send_mcp_request (lines 536-573).  pc = "rpc_read" is the call of       *)
(* readline().  The test of the deadline follows each turn at once; after  *)
(* a wait in readline() the 5 seconds may have passed or not.              *)
(***************************************************************************)
\* stdin.write and flush, start = time.time(), the first test of the deadline.
WriteRequest(req, kind) ==
    /\ inq' = Append(inq, req)
    /\ pc' = "rpc_read"
    /\ call' = kind
    /\ response' = NoResponse

\* A write to the stdin of an engine that has exited raises BrokenPipeError.
Send(req, kind) ==
    IF engine = "exited"
    THEN /\ pc' = "crashed"
         /\ call' = kind
         /\ raised' = "BrokenPipeError"
         /\ UNCHANGED <<response, inq>>
    ELSE /\ WriteRequest(req, kind)
         /\ UNCHANGED raised

\* An exception leaves send_mcp_request: __init__ catches it around the
\* pubkey query (lines 69-81); nothing catches it around the other calls.
Raise(exception) ==
    IF call = "pubkeys"
    THEN /\ pc' = "start_game"
         /\ raised' = raised
    ELSE /\ pc' = "crashed"
         /\ raised' = exception

\* readline() returns a line that json.loads refuses: it is dropped, and the
\* deadline is tested.
RpcDiscard ==
    /\ pc = "rpc_read"
    /\ pipe # <<>>
    /\ ~json_loads(Head(pipe)).ok
    /\ pipe' = Tail(pipe)
    /\ \E deadline_passed \in BOOLEAN :
          IF deadline_passed
          THEN Raise("TimeoutError")
          ELSE UNCHANGED <<pc, raised>>
    /\ UNCHANGED <<call, response, offline_mode_detected, game_vars, terminated, engine,
                   inq, logs>>
    /\ UNCHANGED http_vars

\* readline() returns '' at the end of the stream, the loop sleeps and goes
\* round until the deadline has passed.
RpcReadEOF ==
    /\ pc = "rpc_read"
    /\ pipe = <<>>
    /\ engine = "exited"
    /\ Raise("TimeoutError")
    /\ UNCHANGED <<call, response, offline_mode_detected, game_vars, terminated, engine,
                   inq, pipe, logs>>
    /\ UNCHANGED http_vars

\* readline() returns a line that json.loads accepts: send_mcp_request of
\* the kind returns it.
Receive(kind) ==
    /\ pc = "rpc_read"
    /\ call = kind
    /\ pipe # <<>>
    /\ json_loads(Head(pipe)).ok
    /\ pipe' = Tail(pipe)
    /\ response' = json_loads(Head(pipe)).val

(***************************************************************************)
(* __init__: the pubkey query (lines 68-81).                               *)
(***************************************************************************)
PubkeysSend ==
    /\ pc = "pk_send"
    /\ IF engine = "exited"
       THEN \* the write raises BrokenPipeError, which `except Exception` catches
            /\ pc' = "start_game"
            /\ UNCHANGED <<call, response, inq>>
       ELSE WriteRequest(Request("kdapp_get_agent_pubkeys", JNull, NoCommand), "pubkeys")
    /\ UNCHANGED <<offline_mode_detected, game_vars, raised, terminated, engine, pipe, logs>>
    /\ UNCHANGED http_vars

PubkeysReturn ==
    /\ Receive("pubkeys")
    /\ pc' = "start_game"
    /\ UNCHANGED <<call, offline_mode_detected, game_vars, raised, terminated, engine, inq,
                   logs>>
    /\ UNCHANGED http_vars

(***************************************************************************)
(* start_game (lines 497-534) and get_game_state (lines 205-218).          *)
(***************************************************************************)
StartSend ==
    /\ pc = "start_game"
    /\ IF require_onchain /\ ~has_onchain_capability
       THEN /\ pc' = "done"
            /\ outcome' = "not_started"
            /\ UNCHANGED <<call, response, inq, raised>>
       ELSE /\ Send(Request("kdapp_start_episode", JNull, NoCommand), "start")
            /\ UNCHANGED outcome
    /\ UNCHANGED <<offline_mode_detected, episode_id, game_board, current_player, move_count,
                   consecutive_failures, move, default_move, terminated, engine, pipe, logs>>
    /\ UNCHANGED http_vars

\* StartReturn that takes every response for a success.
StartReturn_ignore_error ==
    /\ Receive("start")
    /\ pc' = "state_send"
    /\ UNCHANGED <<call, offline_mode_detected, game_vars, raised, terminated, engine,
                   inq, logs>>
    /\ UNCHANGED http_vars

\* The response of kdapp_start_episode; with a result, get_game_state is next.
StartReturn ==
    /\ Receive("start")
    /\ IF Has(response', "result")
       THEN /\ episode_id' = response'.f["result"]
            /\ pc' = "state_send"
            /\ UNCHANGED outcome
       ELSE /\ pc' = "done"
            /\ outcome' = "not_started"
            /\ UNCHANGED episode_id
    /\ UNCHANGED <<call, offline_mode_detected, game_board, current_player, move_count,
                   consecutive_failures, move, default_move, raised, terminated, engine,
                   inq, logs>>
    /\ UNCHANGED http_vars

StateSend ==
    /\ pc = "state_send"
    /\ Send(Request("kdapp_get_episode_state", episode_id, NoCommand), "state")
    /\ UNCHANGED <<offline_mode_detected, game_vars, terminated, engine, pipe, logs>>
    /\ UNCHANGED http_vars

\* get_game_state returns; start_game returns True; play_game sets its counters.
StateReturn ==
    /\ Receive("state")
    /\ pc' = "loop"
    /\ move_count' = 0
    /\ consecutive_failures' = 0
    /\ UNCHANGED <<call, offline_mode_detected, episode_id, game_board, current_player,
                   move, default_move, outcome, raised, terminated, engine, inq, logs>>
    /\ UNCHANGED http_vars

(***************************************************************************)
(* play_game (lines 574-665).                                              *)
(***************************************************************************)
\* The condition of the while loop without the ceiling of the failures.
loop_condition_no_ceiling ==
    move_count < max_moves

\* The condition of the while loop.
loop_condition ==
    move_count < max_moves /\ consecutive_failures < max_consecutive_failures

\* PlyStart without the break at a winner or a draw (lines 592-598).
PlyStart_no_break ==
    /\ pc = "loop"
    /\ loop_condition
    /\ \E reply \in AgentReplies :
       \E m \in get_move_from_agent(game_board, reply) :
          /\ move' = m
          /\ default_move' = NoMove
          /\ Send(Request("kdapp_execute_command", episode_id,
                          MoveCommand(current_player, m[1], m[2])), "move")
    /\ UNCHANGED <<offline_mode_detected, episode_id, game_board, current_player, move_count,
                   consecutive_failures, outcome, terminated, engine, pipe, logs>>
    /\ UNCHANGED http_vars

\* One turn of the loop up to the first execute_move: no winner yet, the move
\* is got from the agent of the side to move and written to the engine.
PlyStart ==
    /\ pc = "loop"
    /\ loop_condition
    /\ check_winner(game_board) = None
    /\ \E reply \in AgentReplies :
       \E m \in get_move_from_agent(game_board, reply) :
          /\ move' = m
          /\ default_move' = NoMove
          /\ Send(Request("kdapp_execute_command", episode_id,
                          MoveCommand(current_player, m[1], m[2])), "move")
    /\ UNCHANGED <<offline_mode_detected, episode_id, game_board, current_player, move_count,
                   consecutive_failures, outcome, terminated, engine, pipe, logs>>
    /\ UNCHANGED http_vars

\* The result play_game prints for the board (lines 655-665).
final_outcome(board) ==
    IF check_winner(board) = None THEN "no_winner" ELSE check_winner(board)

\* The loop ends, by its condition or by the break at a winner or a draw.
LoopExit ==
    /\ pc = "loop"
    /\ ~loop_condition \/ check_winner(game_board) # None
    /\ pc' = "done"
    /\ outcome' = final_outcome(game_board)
    /\ UNCHANGED <<call, response, offline_mode_detected, episode_id, game_board,
                   current_player, move_count, consecutive_failures, move, default_move,
                   raised, terminated, engine, inq, pipe, logs>>
    /\ UNCHANGED http_vars

\* MoveReturn that keeps the counter of failures at an accepted move.
MoveReturn_no_reset ==
    /\ Receive("move")
    /\ IF execute_move(response', require_onchain)
       THEN /\ game_board' = update_board(game_board, move[1], move[2], current_player)
            /\ current_player' = Other(current_player)
            /\ move_count' = move_count + 1
            /\ pc' = "loop"
            /\ UNCHANGED consecutive_failures
       ELSE /\ consecutive_failures' = consecutive_failures + 1
            /\ pc' = "fb_send"
            /\ UNCHANGED <<game_board, current_player, move_count>>
    /\ UNCHANGED <<call, offline_mode_detected, episode_id, move, default_move, outcome,
                   raised, terminated, engine, inq, logs>>
    /\ UNCHANGED http_vars

\* execute_move returns for the move of the agent (lines 613-626).
MoveReturn ==
    /\ Receive("move")
    /\ IF execute_move(response', require_onchain)
       THEN /\ game_board' = update_board(game_board, move[1], move[2], current_player)
            /\ current_player' = Other(current_player)
            /\ move_count' = move_count + 1
            /\ consecutive_failures' = 0
            /\ pc' = "loop"
       ELSE /\ consecutive_failures' = consecutive_failures + 1
            /\ pc' = "fb_send"
            /\ UNCHANGED <<game_board, current_player, move_count>>
    /\ UNCHANGED <<call, offline_mode_detected, episode_id, move, default_move, outcome,
                   raised, terminated, engine, inq, logs>>
    /\ UNCHANGED http_vars

\* The default move after a rejection (lines 628-643) is written to the engine.
FallbackSend ==
    /\ pc = "fb_send"
    /\ \E d \in get_default_move(game_board) :
       LET m == fallback_move(game_board, move[1], move[2], d) IN
          /\ default_move' = m
          /\ Send(Request("kdapp_execute_command", episode_id,
                          MoveCommand(current_player, m[1], m[2])), "fallback")
    /\ UNCHANGED <<offline_mode_detected, episode_id, game_board, current_player, move_count,
                   consecutive_failures, move, outcome, terminated, engine, pipe, logs>>
    /\ UNCHANGED http_vars

\* execute_move returns for the default move (lines 643-653).
FallbackReturn ==
    /\ Receive("fallback")
    /\ pc' = "loop"
    /\ IF execute_move(response', require_onchain)
       THEN /\ game_board' = update_board(game_board, default_move[1], default_move[2],
                                          current_player)
            /\ current_player' = Other(current_player)
            /\ move_count' = move_count + 1
            /\ consecutive_failures' = 0
       ELSE UNCHANGED <<game_board, current_player, move_count, consecutive_failures>>
    /\ UNCHANGED <<call, offline_mode_detected, episode_id, move, default_move, outcome,
                   raised, terminated, engine, inq, logs>>
    /\ UNCHANGED http_vars

CoordinatorNext ==
    \/ StartupReadLine
    \/ StartupReadEOF
    \/ StartupDrain
    \/ RpcDiscard
    \/ RpcReadEOF
    \/ PubkeysSend
    \/ PubkeysReturn
    \/ StartSend
    \/ StartReturn
    \/ StateSend
    \/ StateReturn
    \/ PlyStart
    \/ LoopExit
    \/ MoveReturn
    \/ FallbackSend
    \/ FallbackReturn

Next == CoordinatorNext \/ EngineNext

Spec == Init /\ [][Next]_vars

\* The coordinator's thread runs whenever it can; the engine owes nothing.
FairSpec == Spec /\ WF_vars(CoordinatorNext)

(***************************************************************************)
(* The functions of the coordinator on their own: each is called once, on  *)
(* any board of marks.                                                     *)
(***************************************************************************)
Boards == [Idx -> [Idx -> {None, "X", "O"}]]

PureInit ==
    /\ pc = "call"
    /\ call = "none"
    /\ response = NoResponse
    /\ offline_mode_detected = FALSE
    /\ episode_id = JNull
    /\ game_board \in Boards
    /\ current_player = "X"
    /\ move_count = 0
    /\ consecutive_failures = 0
    /\ move = NoMove
    /\ default_move = NoMove
    /\ outcome = "none"
    /\ raised = "none"
    /\ terminated = FALSE
    /\ engine = "serving"
    /\ inq = <<>>
    /\ pipe = <<>>
    /\ logs = 0
    /\ NoHttpServer

pure_frame ==
    <<offline_mode_detected, episode_id, game_board, current_player, move_count,
      consecutive_failures, default_move, raised, terminated, engine, inq, pipe, logs>>

\* winner = self.check_winner(); the result is kept in outcome.
CheckWinnerCall ==
    /\ pc = "call"
    /\ pc' = "returned"
    /\ call' = "check_winner"
    /\ outcome' = check_winner(game_board)
    /\ UNCHANGED <<response, move, pure_frame>>
    /\ UNCHANGED http_vars

\* row, col = self.get_default_move(); the result is kept in move.
GetDefaultMoveCall ==
    /\ pc = "call"
    /\ pc' = "returned"
    /\ call' = "get_default_move"
    /\ \E m \in get_default_move(game_board) : move' = m
    /\ UNCHANGED <<response, outcome, pure_frame>>
    /\ UNCHANGED http_vars

\* row, col = self.get_move_from_agent1(self.game_board), for a reply of the
\* agent, which is kept in response; the result is kept in move.
GetMoveFromAgentCall ==
    /\ pc = "call"
    /\ pc' = "returned"
    /\ call' = "get_move_from_agent"
    /\ \E reply \in AgentReplies :
          /\ response' = reply
          /\ \E m \in get_move_from_agent(game_board, reply) : move' = m
    /\ UNCHANGED <<outcome, pure_frame>>
    /\ UNCHANGED http_vars

\* Responses to kdapp_execute_command, by where they carry an identifier:
\* a bare string, a direct field, a field of a nested receipt, or nowhere.
TxResponses ==
    { ResultOnly(JStr(0)), ResultOnly(JStr(3)), ResultOnly(JStr(8)), ResultOnly(TxHash),
      ResultOnly(JObj([tx_hash |-> TxHash])),
      ResultOnly(JObj([txid |-> TxHash])),
      ResultOnly(JObj([tx |-> TxHash])),
      ResultOnly(JObj([transaction |-> TxHash])),
      ResultOnly(JObj([hash |-> TxHash])),
      ResultOnly(JObj([tx_hash |-> JStr(0), txid |-> TxHash])),
      ResultOnly(JObj([receipt |-> JObj([tx_hash |-> TxHash])])),
      ResultOnly(JObj([receipt |-> JObj([txid |-> TxHash])])),
      ResultOnly(JObj([receipt |-> JObj([hash |-> TxHash])])),
      ResultOnly(JObj([receipt |-> JObj([tx_hash |-> JStr(0), txid |-> TxHash])])),
      ResultOnly(JObj([tx_hash |-> JStr(0), receipt |-> JObj([hash |-> TxHash])])),
      ResultOnly(JObj([receipt |-> TxHash])),
      ResultOnly(JObj([status |-> JStr(2)])),
      ResultOnly(EmptyObj),
      ResultOnly(JNull),
      ErrorOnly,
      ResultAndError(JObj([tx_hash |-> TxHash])) }

\* self.execute_move(...) from the response of its request on: the response
\* is kept in response, the verdict in outcome.
ExecuteMoveCall ==
    /\ pc = "call"
    /\ pc' = "returned"
    /\ call' = "execute_move"
    /\ \E r \in TxResponses :
          /\ response' = r
          /\ outcome' = IF execute_move(r, require_onchain) THEN "accepted" ELSE "rejected"
    /\ UNCHANGED <<move, pure_frame>>
    /\ UNCHANGED http_vars

PureNext ==
    \/ CheckWinnerCall
    \/ GetDefaultMoveCall
    \/ GetMoveFromAgentCall
    \/ ExecuteMoveCall

PureSpec == PureInit /\ [][PureNext]_vars

(***************************************************************************)
(* tests/test_simple_server.py: an HTTPServer with SimpleHTTPRequestHandler *)
(* that serves in the thread t, a client that gets the root path, and the  *)
(* shutdown.  serve_forever, shutdown and the handler are the standard     *)
(* library's: serve_forever clears the event __is_shut_down, polls the     *)
(* socket while __shutdown_request is false, and sets the event on its way *)
(* out; shutdown sets the request and waits for the event.                 *)
(***************************************************************************)
\* The coordinator does not run in this test.
NoCoordinator ==
    /\ pc = "none"
    /\ call = "none"
    /\ response = NoResponse
    /\ offline_mode_detected = FALSE
    /\ episode_id = JNull
    /\ game_board = EmptyBoard
    /\ current_player = "X"
    /\ move_count = 0
    /\ consecutive_failures = 0
    /\ move = NoMove
    /\ default_move = NoMove
    /\ outcome = "none"
    /\ raised = "none"
    /\ terminated = FALSE
    /\ engine = "none"
    /\ inq = <<>>
    /\ pipe = <<>>
    /\ logs = 0
program_vars == <<coordinator_vars, engine, inq, pipe, logs>>

\* HTTPServer(("127.0.0.1", 0), SimpleHTTPRequestHandler) has bound its
\* socket and listens; the thread is not started.
ServerInit ==
    /\ NoCoordinator
    /\ test = "start"
    /\ thread = "unstarted"
    /\ shutdown_request = FALSE
    /\ is_shut_down = FALSE
    /\ listening = TRUE
    /\ conn = "none"
    /\ resp_status = 0
    /\ index_page \in {"index.html", "index.htm", "none"}

\* The status SimpleHTTPRequestHandler sends for GET / : the index page of
\* the directory when there is one, else the listing of the directory.
send_head(index) ==
    IF index \in {"index.html", "index.htm"} THEN 200 ELSE 200

\* t = threading.Thread(target=run_server, ...); t.start()
TestStart ==
    /\ test = "start"
    /\ test' = "sleep"
    /\ thread' = "started"
    /\ UNCHANGED <<shutdown_request, is_shut_down, listening, conn, resp_status, index_page,
                   program_vars>>

\* time.sleep(0.1)
TestSleep ==
    /\ test = "sleep"
    /\ test' = "request"
    /\ UNCHANGED <<thread, shutdown_request, is_shut_down, listening, conn, resp_status,
                   index_page, program_vars>>

\* conn = HTTPConnection(host, port, timeout=2); conn.request("GET", "/")
\* connects: the listening socket takes the connection ...
TestConnect ==
    /\ test = "request"
    /\ listening
    /\ conn' = "connected"
    /\ test' = "send"
    /\ UNCHANGED <<thread, shutdown_request, is_shut_down, listening, resp_status, index_page,
                   program_vars>>

\* ... and sends the request, to a connection the server has accepted or not.
TestSend ==
    /\ test = "send"
    /\ conn' = IF conn = "accepted" THEN "accepted_sent" ELSE "sent"
    /\ test' = "getresponse"
    /\ UNCHANGED <<thread, shutdown_request, is_shut_down, listening, resp_status, index_page,
                   program_vars>>

\* resp = conn.getresponse(); assert resp.status == 200
TestGetResponse ==
    /\ test = "getresponse"
    /\ conn = "answered"
    /\ test' = IF resp_status = 200 THEN "conn_close" ELSE "failed"
    /\ UNCHANGED <<thread, shutdown_request, is_shut_down, listening, conn, resp_status,
                   index_page, program_vars>>

\* conn.close()
TestConnClose ==
    /\ test = "conn_close"
    /\ conn' = "closed"
    /\ test' = "shutdown"
    /\ UNCHANGED <<thread, shutdown_request, is_shut_down, listening, resp_status, index_page,
                   program_vars>>

\* A shutdown() that sets the request and does not wait for the event.
TestShutdown_no_wait ==
    /\ test = "shutdown"
    /\ shutdown_request' = TRUE
    /\ test' = "server_close"
    /\ UNCHANGED <<thread, is_shut_down, listening, conn, resp_status, index_page,
                   program_vars>>

\* server.shutdown(): the request is set ...
TestShutdown ==
    /\ test = "shutdown"
    /\ shutdown_request' = TRUE
    /\ test' = "shutdown_wait"
    /\ UNCHANGED <<thread, is_shut_down, listening, conn, resp_status, index_page,
                   program_vars>>

\* ... and shutdown() returns when the event is set.
TestShutdownReturn ==
    /\ test = "shutdown_wait"
    /\ is_shut_down
    /\ test' = "server_close"
    /\ UNCHANGED <<thread, shutdown_request, is_shut_down, listening, conn, resp_status,
                   index_page, program_vars>>

\* server.server_close()
TestServerClose ==
    /\ test = "server_close"
    /\ listening' = FALSE
    /\ test' = "join"
    /\ UNCHANGED <<thread, shutdown_request, is_shut_down, conn, resp_status, index_page,
                   program_vars>>

\* t.join(timeout=2) returns when the thread has ended; its 2 seconds pass
\* only while the thread waits in the poll of its loop.
TestJoin ==
    /\ test = "join"
    /\ thread \in {"dead", "select"}
    /\ test' = "assert"
    /\ UNCHANGED <<thread, shutdown_request, is_shut_down, listening, conn, resp_status,
                   index_page, program_vars>>

\* assert not t.is_alive()
TestAssert ==
    /\ test = "assert"
    /\ test' = IF thread = "dead" THEN "passed" ELSE "failed"
    /\ UNCHANGED <<thread, shutdown_request, is_shut_down, listening, conn, resp_status,
                   index_page, program_vars>>

\* run_server: server.serve_forever() begins and clears the event.
ThreadServeForever ==
    /\ thread = "started"
    /\ is_shut_down' = FALSE
    /\ thread' = "loop"
    /\ UNCHANGED <<test, shutdown_request, listening, conn, resp_status, index_page,
                   program_vars>>

\* while not self.__shutdown_request
ThreadLoopTest ==
    /\ thread = "loop"
    /\ thread' = IF shutdown_request THEN "finally" ELSE "select"
    /\ UNCHANGED <<test, shutdown_request, is_shut_down, listening, conn, resp_status,
                   index_page, program_vars>>

\* selector.select(poll_interval) returns, at a connection or after the
\* interval; the request to shut down is tested again, then the readiness.
ThreadSelect ==
    /\ thread = "select"
    /\ thread' = IF shutdown_request THEN "finally"
                 ELSE IF conn \in {"connected", "sent"} THEN "handle"
                 ELSE "loop"
    /\ UNCHANGED <<test, shutdown_request, is_shut_down, listening, conn, resp_status,
                   index_page, program_vars>>

\* _handle_request_noblock: the connection is accepted ...
ThreadAccept ==
    /\ thread = "handle"
    /\ conn' = IF conn = "sent" THEN "accepted_sent" ELSE "accepted"
    /\ thread' = "read_request"
    /\ UNCHANGED <<test, shutdown_request, is_shut_down, listening, resp_status, index_page,
                   program_vars>>

\* ... the handler reads the request line when it has come ...
ThreadReadRequest ==
    /\ thread = "read_request"
    /\ conn = "accepted_sent"
    /\ thread' = "respond"
    /\ UNCHANGED <<test, shutdown_request, is_shut_down, listening, conn, resp_status,
                   index_page, program_vars>>

\* ... answers the GET and closes its side.
ThreadRespond ==
    /\ thread = "respond"
    /\ resp_status' = send_head(index_page)
    /\ conn' = "answered"
    /\ thread' = "loop"
    /\ UNCHANGED <<test, shutdown_request, is_shut_down, listening, index_page, program_vars>>

\* The finally of serve_forever.
ThreadFinally ==
    /\ thread = "finally"
    /\ shutdown_request' = FALSE
    /\ is_shut_down' = TRUE
    /\ thread' = "returning"
    /\ UNCHANGED <<test, listening, conn, resp_status, index_page, program_vars>>

\* serve_forever and run_server return: the thread ends.
ThreadReturn ==
    /\ thread = "returning"
    /\ thread' = "dead"
    /\ UNCHANGED <<test, shutdown_request, is_shut_down, listening, conn, resp_status,
                   index_page, program_vars>>

ServerNext ==
    \/ TestStart
    \/ TestSleep
    \/ TestConnect
    \/ TestSend
    \/ TestGetResponse
    \/ TestConnClose
    \/ TestShutdown
    \/ TestShutdownReturn
    \/ TestServerClose
    \/ TestJoin
    \/ TestAssert
    \/ ThreadServeForever
    \/ ThreadLoopTest
    \/ ThreadSelect
    \/ ThreadAccept
    \/ ThreadReadRequest
    \/ ThreadRespond
    \/ ThreadFinally
    \/ ThreadReturn

ServerSpec == ServerInit /\ [][ServerNext]_vars

(***************************************************************************)
(* Properties.                                                             *)
(***************************************************************************)
\* A step in which send_mcp_request of a move returns its response.
MoveResponded ==
    pc = "rpc_read" /\ call \in {"move", "fallback"} /\ response' # NoResponse

\* A step that accepts a move: the board takes a mark.
Accepted == game_board' # game_board

\* A step that rejects the move of the agent, and one that rejects the default move.
PrimaryRejected == MoveResponded /\ call = "move" /\ ~Accepted
FallbackRejected == MoveResponded /\ call = "fallback" /\ ~Accepted

\* The requests that were written and whose answer has not been read.
InFlight ==
    Len(inq) + Cardinality({i \in DOMAIN pipe : pipe[i].re # NoRequest})

\* C1: no two requests are in flight on the channel: a request is written only
\* when the answer to every earlier one was read, also after a call that ended
\* in a timeout its caller caught.
C1_OneInFlight == InFlight <= 1

\* C2: a move submission that ends in a timeout is taken as a rejected move;
\* no failure of a call leaves the run once the startup has succeeded.
C2_MoveFailureAbsorbed ==
    call \in {"move", "fallback"} => raised # "TimeoutError"

\* C3: the engine is terminated on every path that ends the run: a win, a
\* draw, the ceiling of the failures, a failed start, an error.
C3_TornDown ==
    pc \in {"done", "crashed"} => terminated

\* C4: a call returns the first line that parses as JSON: a read takes one
\* line, the first; a line that does not parse is dropped and the call does
\* not return it; a line that parses is returned at once; and no line is
\* taken from the stream outside the reads.
C4_FirstJsonLine ==
    [][ /\ (pc = "rpc_read" /\ pipe' # pipe /\ Len(pipe') <= Len(pipe)) =>
              /\ pipe' = Tail(pipe)
              /\ IF Head(pipe).kind = "json"
                 THEN response' = Head(pipe).val /\ pc' # "rpc_read"
                 ELSE response' = NoResponse
        /\ (response' # response /\ response' # NoResponse) =>
              /\ pc = "rpc_read" /\ pipe # <<>>
              /\ Head(pipe).kind = "json"
              /\ response' = Head(pipe).val
              /\ pipe' = Tail(pipe)
        /\ pc \notin {"rpc_read", "st_read", "st_drain"} =>
              /\ Len(pipe') >= Len(pipe)
              /\ SubSeq(pipe', 1, Len(pipe)) = pipe
      ]_vars

\* A call has returned and has left the line after the returned one unread.
C4_Witness ==
    /\ pc \in {"state_send", "loop", "fb_send"}
    /\ response # NoResponse
    /\ pipe # <<>>
    /\ Head(pipe).kind = "text"

\* C5: every call ends, with a response or with a timeout, also when the
\* engine prints nothing and keeps running.
C5_CallEnds == (pc = "rpc_read") ~> (pc # "rpc_read")

\* What carries a transaction identifier, by the shape of the response.
HasIdentifier(r) ==
    /\ IsDict(r) /\ Has(r, "result")
    /\ \/ /\ IsStr(r.f["result"])
          /\ r.f["result"].len >= 8
       \/ /\ IsDict(r.f["result"])
          /\ \/ \E k \in {"tx_hash", "txid", "tx", "transaction", "hash"} :
                   Has(r.f["result"], k) /\ Truthy(r.f["result"].f[k])
             \/ /\ Has(r.f["result"], "receipt")
                /\ IsDict(r.f["result"].f["receipt"])
                /\ \E k \in {"tx_hash", "txid", "hash"} :
                      /\ Has(r.f["result"].f["receipt"], k)
                      /\ Truthy(r.f["result"].f["receipt"].f[k])

\* C6: with on-chain enforcement no move is accepted unless its response
\* carries a transaction identifier: a null result, an empty object and an
\* object without identifier fields are rejected.
C6_NoAcceptWithoutTx ==
    [][ (require_onchain /\ (Accepted \/ current_player' # current_player)) =>
            /\ MoveResponded
            /\ HasIdentifier(response')
            /\ response' \notin { ResultOnly(JNull), ResultOnly(EmptyObj),
                                  ResultOnly(JObj([status |-> JStr(2)])) }
      ]_vars

\* On-chain, a response with an empty object for its result was rejected.
C6_Witness ==
    /\ require_onchain
    /\ pc = "fb_send"
    /\ response = ResultOnly(EmptyObj)
    /\ consecutive_failures = 1

\* C7: without on-chain enforcement a move response with a result and no
\* error is accepted, also when the result is null or empty.
C7_OfflineAccepts ==
    [][ ( /\ ~require_onchain
          /\ MoveResponded
          /\ IsDict(response') /\ Has(response', "result") /\ ~Has(response', "error") ) =>
            /\ Accepted
            /\ current_player' # current_player
            /\ move_count' = move_count + 1
            /\ pc' = "loop"
      ]_vars

\* Offline, the move of the agent was accepted on a null result.
C7_Witness ==
    /\ ~require_onchain
    /\ pc = "loop"
    /\ call = "move"
    /\ response = ResultOnly(JNull)
    /\ move_count = 1

\* C8: an accepted move, of the agent or the default, flips the side to move
\* once; a ply whose two moves are rejected leaves it; nothing else changes it.
C8_SideFlips ==
    [][ /\ Accepted => current_player' # current_player
        /\ current_player' # current_player => (Accepted /\ MoveResponded)
        /\ (PrimaryRejected \/ FallbackRejected) => current_player' = current_player
        /\ current_player' \in {"X", "O"}
      ]_vars

\* After an accepted move, a ply ended with its two moves rejected.
C8_Witness ==
    /\ pc = "loop"
    /\ call = "fallback"
    /\ response = ErrorOnly
    /\ current_player = "O"
    /\ move_count = 1

\* C9: the counter of failures is 0 after every accepted move and is one
\* more after every rejection, of the move of the agent and of the default
\* move alike.
C9_EveryRejectionCounts ==
    [][ /\ (MoveResponded /\ Accepted) => consecutive_failures' = 0
        /\ (PrimaryRejected \/ FallbackRejected) =>
               consecutive_failures' = consecutive_failures + 1
      ]_vars

\* C9, amended: the counter is 0 after every accepted move, one more after
\* the rejection of the move of the agent, and the same after the rejection
\* of the default move; only these and the start of play_game set it.
C9_CountsPrimaryRejection ==
    [][ /\ (MoveResponded /\ Accepted) => consecutive_failures' = 0
        /\ PrimaryRejected => consecutive_failures' = consecutive_failures + 1
        /\ FallbackRejected => consecutive_failures' = consecutive_failures
        /\ consecutive_failures' # consecutive_failures =>
               (MoveResponded \/ (pc = "rpc_read" /\ call = "state"))
      ]_vars

\* A ply ended with its two moves rejected and the counter at 1.
C9_Witness ==
    /\ pc = "loop"
    /\ call = "fallback"
    /\ response = ErrorOnly
    /\ move_count = 0
    /\ consecutive_failures = 1

\* C10: once the counter of failures is 3 no move is obtained or submitted
\* any more, and the run ends with no winner.
C10_AbandonedAtThree ==
    consecutive_failures >= max_consecutive_failures =>
        /\ pc # "rpc_read"
        /\ pc = "done" => outcome = "no_winner"

\* C10, amended: when a ply ends with the counter at 3 the loop ends: no
\* move is obtained or submitted any more, whatever cells are empty, and the
\* run ends with no winner.
C10_AbandonedAfterPly ==
    [][ (pc = "loop" /\ consecutive_failures >= max_consecutive_failures) =>
            /\ pc' = "done"
            /\ outcome' = "no_winner"
            /\ UNCHANGED <<inq, move, default_move, game_board, current_player,
                           move_count, consecutive_failures>>
      ]_vars

\* The run ended at the ceiling on a board with empty cells and no winner.
C10_Witness ==
    /\ pc = "done"
    /\ consecutive_failures = max_consecutive_failures
    /\ outcome = "no_winner"
    /\ move_count = 1
    /\ check_winner(game_board) = None

\* The game has reached a terminal outcome: printed, or on the board and in
\* the counters at the head of the loop.
Terminal ==
    \/ pc = "done"
    \/ /\ pc = "loop"
       /\ \/ check_winner(game_board) # None
          \/ consecutive_failures >= max_consecutive_failures
          \/ move_count >= max_moves

\* C11: a terminal outcome is absorbing: from then on no request is written
\* to the engine and the board does not change.
C11_TerminalAbsorbing ==
    [][ Terminal => (Terminal' /\ Len(inq') <= Len(inq) /\ game_board' = game_board
                     /\ pc' \in {"loop", "done"}) ]_vars

\* The run ended with a winner on the board.
C11_Witness ==
    /\ pc = "done"
    /\ outcome \in {"X", "O"}
    /\ move_count < max_moves

\* C12: when the engine prints no readiness line the startup ends with the
\* startup timeout (RuntimeError): the constructor does not wait forever,
\* whether the engine is silent, prints other lines or keeps its output open.
C12_StartupEnds ==
    (pc \in {"st_read", "st_drain"}) ~> (pc = "pk_send" \/ raised = "RuntimeError")

\* The cells of the board that differ between two boards.
Changed(b1, b2) == {c \in Cells : b1[c[1]][c[2]] # b2[c[1]][c[2]]}

\* C13: the board changes only by an accepted move, in one cell, which was
\* empty and takes the mark of the mover; a rejected submission leaves the
\* board; a cell with a mark keeps it.
C13_BoardMutation ==
    [][ /\ game_board' # game_board =>
              /\ MoveResponded
              /\ execute_move(response', require_onchain)
              /\ move_count' = move_count + 1
              /\ \E c \in Cells :
                    /\ Changed(game_board, game_board') = {c}
                    /\ game_board[c[1]][c[2]] = None
                    /\ game_board'[c[1]][c[2]] = current_player
        /\ (MoveResponded /\ ~execute_move(response', require_onchain)) =>
              game_board' = game_board
        /\ \A c \in Cells :
              game_board[c[1]][c[2]] # None => game_board'[c[1]][c[2]] = game_board[c[1]][c[2]]
        /\ DOMAIN game_board' = Idx /\ \A r \in Idx : DOMAIN game_board'[r] = Idx
      ]_vars

\* The default move was accepted after the move of the agent was rejected,
\* on a board that had a mark.
C13_Witness ==
    /\ pc = "loop"
    /\ call = "fallback"
    /\ move_count = 2
    /\ consecutive_failures = 0
    /\ Cardinality({c \in Cells : game_board[c[1]][c[2]] # None}) = 2

WrittenRequest ==
    CASE call = "pubkeys" -> Request("kdapp_get_agent_pubkeys", JNull, NoCommand)
      [] call = "start" -> Request("kdapp_start_episode", JNull, NoCommand)
      [] call = "state" -> Request("kdapp_get_episode_state", episode_id, NoCommand)
      [] call = "move" ->
            Request("kdapp_execute_command", episode_id,
                    MoveCommand(current_player, move[1], move[2]))
      [] call = "fallback" ->
            Request("kdapp_execute_command", episode_id,
                    MoveCommand(current_player, default_move[1], default_move[2]))

\* C19: the response a call returns is the answer of the engine to the
\* request this call wrote, and the episode handle is the answer to
\* kdapp_start_episode, also after a pubkey query that timed out.
C19_AnswersOwnRequest ==
    [][ (pc = "rpc_read" /\ response' # NoResponse) =>
            /\ Head(pipe).re = WrittenRequest
            /\ episode_id' # JNull => Head(pipe).re.name # "kdapp_get_agent_pubkeys"
      ]_vars

\* C20: on-chain enforcement is off whenever the startup output of the engine
\* announces offline mode, whichever readiness line was matched first.
C20_OfflineDisables ==
    pc \notin {"st_read", "st_drain", "st_failed"} =>
        \A i \in DOMAIN pipe : is_offline_line(pipe[i]) => ~require_onchain

\* The lines of the board and the marks that fill one.
Lines ==
    {{<<r, 0>>, <<r, 1>>, <<r, 2>>} : r \in Idx} \cup
    {{<<0, c>>, <<1, c>>, <<2, c>>} : c \in Idx} \cup
    {{<<0, 0>>, <<1, 1>>, <<2, 2>>}, {<<0, 2>>, <<1, 1>>, <<2, 0>>}}
LineMarks(board) ==
    {m \in {"X", "O"} : \E l \in Lines : \A c \in l : board[c[1]][c[2]] = m}
Full(board) == \A c \in Cells : board[c[1]][c[2]] # None

\* C14: on every board check_winner returns a mark that fills a row, a
\* column or a diagonal when there is one, "Draw" exactly when the board is
\* full without such a line, and nothing otherwise.
C14_CheckWinner ==
    (pc = "returned" /\ call = "check_winner") =>
        /\ LineMarks(game_board) # {} => outcome \in LineMarks(game_board)
        /\ outcome = "Draw" <=> (Full(game_board) /\ LineMarks(game_board) = {})
        /\ outcome = None <=> (~Full(game_board) /\ LineMarks(game_board) = {})

\* check_winner returned X for the diagonal from (0, 2) to (2, 0).
C14_Witness ==
    /\ pc = "returned"
    /\ call = "check_winner"
    /\ outcome = "X"
    /\ game_board = [EmptyBoard EXCEPT ![0][2] = "X", ![1][1] = "X", ![2][0] = "X",
                                       ![0][0] = "O", ![0][1] = "O"]

\* The suggestion of the agent failed: an error of the transport, a status
\* other than 200, a text without a JSON move, or a cell out of the board or
\* with a mark.
SuggestionFailed(reply, board) ==
    \/ reply.status # "200"
    \/ reply.text # "object"
    \/ ~(reply.row \in Idx /\ reply.col \in Idx)
    \/ board[reply.row][reply.col] # None

\* C15: a failed suggestion makes the candidate of the ply a move of the
\* picker: nothing is raised, and the counter of failures, the board, the
\* side to move and the outcome stay as they were.
C15_SuggestionFailure ==
    [][ (call' = "get_move_from_agent" /\ pc' = "returned"
         /\ SuggestionFailed(response', game_board)) =>
            /\ move' \in get_default_move(game_board)
            /\ UNCHANGED <<game_board, current_player, consecutive_failures, move_count,
                           raised, outcome>>
      ]_vars

\* The agent proposed a cell out of the board and the candidate is the center.
C15_Witness ==
    /\ pc = "returned"
    /\ call = "get_move_from_agent"
    /\ response = Reply("200", "object", 3, 0)
    /\ game_board = EmptyBoard
    /\ move = <<1, 1>>

\* C16: on a board with an empty cell get_default_move returns an empty cell:
\* the center if it is empty, else a corner if one is empty, else an edge.
C16_PickerPriority ==
    (pc = "returned" /\ call = "get_default_move" /\ ~Full(game_board)) =>
        /\ move \in Cells
        /\ game_board[move[1]][move[2]] = None
        /\ game_board[1][1] = None => move = <<1, 1>>
        /\ (game_board[1][1] # None
            /\ \E c \in {<<0, 0>>, <<0, 2>>, <<2, 0>>, <<2, 2>>} : game_board[c[1]][c[2]] = None) =>
              move \in {<<0, 0>>, <<0, 2>>, <<2, 0>>, <<2, 2>>}
        /\ (game_board[1][1] # None
            /\ \A c \in {<<0, 0>>, <<0, 2>>, <<2, 0>>, <<2, 2>>} : game_board[c[1]][c[2]] # None) =>
              move \in {<<0, 1>>, <<1, 0>>, <<1, 2>>, <<2, 1>>}

\* With the center taken and a corner empty the picker returned a corner.
C16_Witness ==
    /\ pc = "returned"
    /\ call = "get_default_move"
    /\ game_board = [EmptyBoard EXCEPT ![1][1] = "X", ![0][0] = "O"]
    /\ move = <<0, 2>>

CarriesIdentifier(r) ==
    /\ IsDict(r) /\ Has(r, "result") /\ Truthy(r.f["result"])
    /\ \/ IsStr(r.f["result"]) /\ r.f["result"].len >= 8
       \/ /\ IsDict(r.f["result"])
          /\ \/ \E k \in {"tx_hash", "txid", "tx", "transaction", "hash"} :
                   Has(r.f["result"], k) /\ Truthy(r.f["result"].f[k])
             \/ /\ Has(r.f["result"], "receipt")
                /\ IsDict(r.f["result"].f["receipt"])
                /\ \E k \in {"tx_hash", "txid", "hash"} :
                      /\ Has(r.f["result"].f["receipt"], k)
                      /\ Truthy(r.f["result"].f["receipt"].f[k])

\* C21: with on-chain enforcement a move is accepted when its result is not
\* empty and carries an identifier that is not empty in a recognised
\* position: a direct field tx_hash, txid, tx, transaction, hash; a field
\* tx_hash, txid, hash of a nested receipt; or the result itself, a string.
C21_IdentifierAccepted ==
    ( /\ pc = "returned" /\ call = "execute_move"
      /\ require_onchain
      /\ ~Has(response, "error")
      /\ CarriesIdentifier(response) ) => outcome = "accepted"

\* A step that writes a move request to the engine.
MoveWritten ==
    /\ Len(inq') > Len(inq)
    /\ inq'[Len(inq')].name = "kdapp_execute_command"

\* C22: a rejected move of the agent is followed by one default move in the
\* same ply and the ply ends when that one returns, accepted or not: a ply
\* has at most two move requests; the default move is another cell than the
\* rejected one whenever another empty cell exists.
C22_OneFallback ==
    [][ /\ PrimaryRejected => pc' = "fb_send"
        /\ MoveWritten =>
              \/ pc = "loop" /\ call' = "move" /\ pc' = "rpc_read"
              \/ pc = "fb_send" /\ call' = "fallback" /\ pc' = "rpc_read"
        /\ (pc = "fb_send" /\ pc' # "fb_send") =>
              /\ call' = "fallback"
              /\ \/ MoveWritten /\ Len(inq') = Len(inq) + 1
                 \/ engine = "exited" /\ raised' = "BrokenPipeError"
        /\ (MoveResponded /\ call = "fallback") => pc' = "loop"
        /\ (pc = "fb_send" /\ MoveWritten) =>
              /\ inq'[Len(inq')].command = MoveCommand(current_player, default_move'[1],
                                                       default_move'[2])
              /\ (\E c \in Cells : game_board[c[1]][c[2]] = None /\ c # move) =>
                    default_move' # move
      ]_vars

\* The center was rejected, the picker returned the center again and the
\* default move that was written is another cell.
C22_Witness ==
    /\ pc = "rpc_read"
    /\ call = "fallback"
    /\ move = <<1, 1>>
    /\ default_move = <<0, 0>>
    /\ game_board = EmptyBoard

Center == {<<1, 1>>}
Corners == {<<0, 0>>, <<0, 2>>, <<2, 0>>, <<2, 2>>}
Edges == {<<0, 1>>, <<1, 0>>, <<1, 2>>, <<2, 1>>}
\* The cells of a set that are empty on the board.
EmptyIn(board, set) == {c \in set : board[c[1]][c[2]] = None}
\* The cells of the first of the groups center, corners, edges that has an
\* empty cell of the set candidates.
TopGroup(board, candidates) ==
    IF EmptyIn(board, Center \cap candidates) # {} THEN EmptyIn(board, Center \cap candidates)
    ELSE IF EmptyIn(board, Corners \cap candidates) # {}
         THEN EmptyIn(board, Corners \cap candidates)
    ELSE EmptyIn(board, Edges \cap candidates)

\* C23: the default move submitted after a rejection is a cell of highest
\* priority among the empty cells other than the rejected one, in the order
\* center, corners, edges: no edge while another corner is empty.
C23_FallbackPriority ==
    (pc = "rpc_read" /\ call = "fallback") =>
        (EmptyIn(game_board, Cells \ {move}) # {} =>
            default_move \in TopGroup(game_board, Cells \ {move}))

\* C23, amended: the default move submitted after a rejection is an empty
\* cell other than the rejected one when there is one: the cell of the
\* picker, of the first group with an empty cell, the rejected cell counted,
\* when the picker returns another cell than the rejected one; else the
\* first empty cell in row-major order other than the rejected one.
C23_PickerThenRowMajor ==
    (pc = "rpc_read" /\ call = "fallback") =>
        (EmptyIn(game_board, Cells \ {move}) # {} =>
            /\ default_move \in EmptyIn(game_board, Cells \ {move})
            /\ \/ default_move \in TopGroup(game_board, Cells)
               \/ /\ move \in TopGroup(game_board, Cells)
                  /\ \A c \in EmptyIn(game_board, Cells \ {move}) :
                        \/ default_move[1] < c[1]
                        \/ default_move[1] = c[1] /\ default_move[2] <= c[2]
            /\ TopGroup(game_board, Cells) = {move} =>
                  \A c \in EmptyIn(game_board, Cells \ {move}) :
                     \/ default_move[1] < c[1]
                     \/ default_move[1] = c[1] /\ default_move[2] <= c[2])

\* The center was rejected with (0, 0) taken, and the default move that was
\* written is the edge (0, 1) while three corners are empty.
C23_Witness ==
    /\ pc = "rpc_read"
    /\ call = "fallback"
    /\ move = <<1, 1>>
    /\ default_move = <<0, 1>>
    /\ game_board = [EmptyBoard EXCEPT ![0][0] = "X"]

\* C24: the picker is deterministic: the cell it returned is the only cell
\* it can return on that board.
C24_PickerDeterministic ==
    (pc = "returned" /\ call = "get_default_move") =>
        get_default_move(game_board) = {move}

\* C24, amended: the picker returns a cell of the first of the groups
\* center, corners, edges that has an empty cell; the cell is determined by
\* the board when that group has one empty cell, as it has with the center
\* empty, and is any of several cells of the group otherwise.
C24_DeterministicGroup ==
    (pc = "returned" /\ call = "get_default_move" /\ ~Full(game_board)) =>
        /\ move \in TopGroup(game_board, Cells)
        /\ get_default_move(game_board) \subseteq TopGroup(game_board, Cells)
        /\ game_board[1][1] = None => get_default_move(game_board) = {<<1, 1>>}
        /\ Cardinality(TopGroup(game_board, Cells)) = 1 =>
              get_default_move(game_board) = {move}
        /\ Cardinality(TopGroup(game_board, Cells)) > 1 =>
              Cardinality(get_default_move(game_board)) > 1

\* With only the center taken the picker returned (0, 2), not the corner
\* (0, 0) it can return as well.
C24_Witness ==
    /\ pc = "returned"
    /\ call = "get_default_move"
    /\ game_board = [EmptyBoard EXCEPT ![1][1] = "X"]
    /\ move = <<0, 2>>
    /\ <<0, 0>> \in get_default_move(game_board)

\* C25: every move written to the engine, of the agent or the default, is
\* at that moment a cell of the board that is empty on the local board, and
\* it is a move of the side to move; it stays such a cell until its call
\* returns.
C25_SubmittedMovesValid ==
    [][ /\ MoveWritten =>
              LET command == inq'[Len(inq')].command IN
              /\ is_valid_move_candidate(game_board, command.row, command.col)
              /\ command.row \in Idx /\ command.col \in Idx
              /\ game_board[command.row][command.col] = None
              /\ command.player = current_player
              /\ <<command.row, command.col>> = IF call' = "move" THEN move' ELSE default_move'
              /\ game_board' = game_board
        /\ (pc' = "rpc_read" /\ call' = "move") =>
              is_valid_move_candidate(game_board', move'[1], move'[2])
        /\ (pc' = "rpc_read" /\ call' = "fallback") =>
              is_valid_move_candidate(game_board', default_move'[1], default_move'[2])
      ]_vars

\* A default move is in flight on a board with two marks, to an empty cell.
C25_Witness ==
    /\ pc = "rpc_read"
    /\ call = "fallback"
    /\ move_count = 2
    /\ inq # <<>>
    /\ inq[Len(inq)].name = "kdapp_execute_command"
    /\ inq[Len(inq)].command.row = default_move[1]
    /\ inq[Len(inq)].command.col = default_move[2]
    /\ game_board[1][1] # None

\* C26: when the agent answers with status 200 and a text with a JSON
\* object whose row and col are a valid move, that cell is the candidate of
\* the ply.
C26_SuggestionUsed ==
    ( /\ pc = "returned" /\ call = "get_move_from_agent"
      /\ response.status = "200"
      /\ response.text = "object"
      /\ is_valid_move_candidate(game_board, response.row, response.col) ) =>
        move = <<response.row, response.col>>

\* A step of the readiness loop that reads a line.
StartupRead == pc = "st_read" /\ pipe # <<>> /\ pipe' # pipe /\ Len(pipe') <= Len(pipe)

\* C27: the startup succeeds at the first line it reads that contains a
\* readiness phrase, and only there: a line without a phrase is dropped and
\* the loop goes on or gives up, the lines after the readiness line stay in
\* the stream, and the readiness loop is not entered again.
C27_ReadyAtFirstMarker ==
    [][ /\ StartupRead =>
              /\ pipe' = Tail(pipe)
              /\ is_ready_line(Head(pipe)) <=> pc' = "pk_send"
              /\ ~is_ready_line(Head(pipe)) => pc' \in {"st_read", "st_drain"}
              /\ UNCHANGED <<inq, game_vars, raised, response>>
        /\ (pc # "pk_send" /\ pc' = "pk_send") =>
              /\ StartupRead
              /\ is_ready_line(Head(pipe))
        /\ pc \notin {"st_read", "st_drain"} => pc' \notin {"st_read", "st_drain"}
        /\ (pc \notin {"st_read", "st_drain", "rpc_read"}) =>
              /\ Len(pipe') >= Len(pipe)
              /\ SubSeq(pipe', 1, Len(pipe)) = pipe
      ]_vars

\* The startup succeeded at the line of cargo and left the lines after it,
\* of cargo and of the server, in the stream.
C27_Witness ==
    /\ pc = "pk_send"
    /\ call = "none"
    /\ pipe = <<RunningLine, ConnectedLine>>

\* C28: provided every call returns, with a response or with a timeout, a
\* game that has started reaches a terminal outcome, whatever the engine
\* answers.
C28_GameTerminates ==
    ((pc = "rpc_read") ~> (pc # "rpc_read")) => ((pc = "loop") ~> Terminal)

\* The number of cells of the board with the mark, and with any mark.
Count(board, mark) == Cardinality({c \in Cells : board[c[1]][c[2]] = mark})
Marks(board) == Cardinality({c \in Cells : board[c[1]][c[2]] # None})

\* C29: in every state of a run the counters agree with the board: the
\* counter of moves is the number of cells with a mark and is in 0..9, the
\* counter of failures is in 0..3, there are as many X as O or one X more,
\* and X is to move exactly when there are as many.
C29_CountersAgree ==
    /\ move_count = Marks(game_board)
    /\ move_count \in 0..max_moves
    /\ consecutive_failures \in 0..max_consecutive_failures
    /\ Count(game_board, "X") - Count(game_board, "O") \in {0, 1}
    /\ current_player = "X" <=> Count(game_board, "X") = Count(game_board, "O")
    /\ current_player \in {"X", "O"}

\* After three accepted moves the move of O was rejected twice in a row.
C29_Witness ==
    /\ pc = "loop"
    /\ move_count = 3
    /\ consecutive_failures = 2
    /\ Count(game_board, "X") = 2
    /\ Count(game_board, "O") = 1
    /\ current_player = "O"

====
